---- MODULE Spec2Model ----
(***************************************************************************)
(* Personal Library Manager (src/library_manager.py).                      *)
(*                                                                         *)
(* One interactive session: load_library, then the menu loop of main with  *)
(* its six choices, every console read going through get_valid_input, and  *)
(* save_library on exit.  Text is a sequence of one-character strings, so  *)
(* that strip, lower, int() and substring containment are computed.  A     *)
(* book (a Python dict) is a function from its keys to its values; a dict  *)
(* read back from the store may lack keys.                                 *)
(***************************************************************************)
EXTENDS Integers, Sequences, FiniteSets, TLC

\* store        library.json: absent, unreadable, corrupt, or a JSON document
\* library      the list main holds (line 193)
\* pc           where the session stands: "start", "menu", a prompt of a
\*              handler, "ack" (Press Enter), "done", "crashed", "reloaded"
\* book         the values add_book has read so far for its dict (lines 51-57)
\* found_books  remove_book's list of matches while it asks for a choice
\* search_by    search_books' choice of field (1 title, 2 author)
\* out          what the last step printed: handler, message, records, numbers
\* line         the line the last input() returned
VARIABLES store, library, pc, book, found_books, search_by, out, line

vars == <<store, library, pc, book, found_books, search_by, out, line>>

\* The menu offers "Add a book" only while the catalog has fewer books.
MaxBooks == 2

-----------------------------------------------------------------------------
(* Text *)

UpperCase == << "A","B","C","D","E","F","G","H","I","J","K","L","M",
                "N","O","P","Q","R","S","T","U","V","W","X","Y","Z" >>
LowerCase == << "a","b","c","d","e","f","g","h","i","j","k","l","m",
                "n","o","p","q","r","s","t","u","v","w","x","y","z" >>
DigitChars == << "0","1","2","3","4","5","6","7","8","9" >>

Range(s) == { s[i] : i \in 1..Len(s) }

lower_char(c) ==
    IF \E i \in 1..Len(UpperCase) : UpperCase[i] = c
    THEN LowerCase[CHOOSE i \in 1..Len(UpperCase) : UpperCase[i] = c]
    ELSE c

\* str.lower()
lower(s) == [i \in 1..Len(s) |-> lower_char(s[i])]

RECURSIVE lstrip(_)
lstrip(s) == IF s # <<>> /\ Head(s) = " " THEN lstrip(Tail(s)) ELSE s

RECURSIVE rstrip(_)
rstrip(s) ==
    IF s # <<>> /\ s[Len(s)] = " " THEN rstrip(SubSeq(s, 1, Len(s) - 1)) ELSE s

\* str.strip()
strip(s) == rstrip(lstrip(s))

\* t in s, for two texts
Contains(t, s) ==
    \E i \in 0..(Len(s) - Len(t)) : SubSeq(s, i + 1, i + Len(t)) = t

IsDigit(c) == c \in Range(DigitChars)
DigitValue(c) == (CHOOSE i \in 1..Len(DigitChars) : DigitChars[i] = c) - 1

RECURSIVE ParseDigits(_)
ParseDigits(s) ==
    IF s = <<>> THEN 0
    ELSE ParseDigits(SubSeq(s, 1, Len(s) - 1)) * 10 + DigitValue(s[Len(s)])

HasSign(s) == s # <<>> /\ Head(s) \in {"-", "+"}
Unsigned(s) == IF HasSign(s) THEN Tail(s) ELSE s

\* the texts int() accepts: an optional sign and at least one digit
IsIntLiteral(s) ==
    /\ Unsigned(s) # <<>>
    /\ \A i \in 1..Len(Unsigned(s)) : IsDigit(Unsigned(s)[i])

\* int(s), for a text int() accepts
int(s) ==
    IF HasSign(s) /\ Head(s) = "-" THEN 0 - ParseDigits(Tail(s))
    ELSE ParseDigits(Unsigned(s))

RECURSIVE FormatDigits(_)
FormatDigits(n) ==
    IF n < 10 THEN << DigitChars[n + 1] >>
    ELSE FormatDigits(n \div 10) \o << DigitChars[(n % 10) + 1] >>

\* the decimal text json.dump writes for an int
FormatInt(n) == IF n < 0 THEN <<"-">> \o FormatDigits(0 - n) ELSE FormatDigits(n)

-----------------------------------------------------------------------------
(* get_valid_input *)

Invalid(message) == [ok |-> FALSE, value |-> message]

YesNo == { <<"y","e","s">>, <<"n","o">>, <<"y">>, <<"n">> }
Yes == { <<"y","e","s">>, <<"y">> }

\* the valid_options test and the return; no options is the empty set
CheckOptions(value, valid_options) ==
    IF valid_options # {} /\ value \notin valid_options
    THEN Invalid("Please enter one of")
    ELSE [ok |-> TRUE, value |-> value]

\* One pass of the loop of get_valid_input over the line read: the value it
\* returns, or the message it prints before it prompts again.
get_valid_input(l, input_type, valid_options) ==
    LET user_input == strip(l) IN
    IF user_input = <<>> THEN Invalid("Input cannot be empty")
    ELSE IF input_type = "int" THEN
        IF ~IsIntLiteral(user_input) THEN Invalid("invalid literal for int()")
        ELSE CheckOptions(int(user_input), valid_options)
    ELSE IF input_type = "bool" THEN
        IF lower(user_input) \notin YesNo THEN Invalid("Please enter 'yes' or 'no'")
        ELSE CheckOptions(lower(user_input) \in Yes, valid_options)
    ELSE CheckOptions(user_input, valid_options)

-----------------------------------------------------------------------------
(* The store: json.dump and json.load *)

Fields == {"title", "author", "year", "genre", "read"}

Has(b, k) == k \in DOMAIN b

Quote == "\""

\* json.dump of one value: a number for the int, a literal for the bool, a
\* quoted string for the text
EncodeValue(k, v) ==
    IF k = "year" THEN [type |-> "number", text |-> FormatInt(v)]
    ELSE IF k = "read"
    THEN [type |-> "literal",
          text |-> IF v THEN <<"t","r","u","e">> ELSE <<"f","a","l","s","e">>]
    ELSE [type |-> "string", text |-> <<Quote>> \o v \o <<Quote>>]

\* json.load of one value
DecodeValue(tok) ==
    IF tok.type = "number" THEN int(tok.text)
    ELSE IF tok.type = "literal" THEN tok.text = <<"t","r","u","e">>
    ELSE SubSeq(tok.text, 2, Len(tok.text) - 1)

json_dump(lib) ==
    [i \in 1..Len(lib) |-> [k \in DOMAIN lib[i] |-> EncodeValue(k, lib[i][k])]]

json_load(doc) ==
    [i \in 1..Len(doc) |-> [k \in DOMAIN doc[i] |-> DecodeValue(doc[i][k])]]

\* load_library: the parsed document when the file exists, opens and parses;
\* the empty list otherwise
load_library(s) == IF s.kind = "json" THEN json_load(s.doc) ELSE <<>>

\* the file opened for appending: a second document after a first does not parse
save_library_append(s, lib, outcome) ==
    IF outcome = "ok"
    THEN IF s.kind = "absent" THEN [kind |-> "json", doc |-> json_dump(lib)]
         ELSE [kind |-> "corrupt", doc |-> <<>>]
    ELSE IF outcome = "open_error" THEN s
    ELSE [kind |-> "corrupt", doc |-> <<>>]

\* save_library: the store after the call, by what the file system does:
\* written whole, not opened (left as it was), or truncated by a failed write
save_library(s, lib, outcome) ==
    IF outcome = "ok" THEN [kind |-> "json", doc |-> json_dump(lib)]
    ELSE IF outcome = "open_error" THEN s
    ELSE [kind |-> "corrupt", doc |-> <<>>]

SaveOutcomes == {"ok", "open_error", "write_error"}

-----------------------------------------------------------------------------
(* The lines typed at each prompt, and the stores a session may find *)

T_Du == <<"D","u">>
T_du == <<"d","u">>
T_Ha == <<"H","a">>
A_Al == <<"A","l">>
A_Bo == <<"B","o">>
G_SF == <<"S","F">>

MenuLines == { <<"1">>, <<"2">>, <<"3">>, <<"4">>, <<"5">>, <<"6">>,
               <<>>, <<"a","b","c">>, <<"9">>, <<"0">> }
TitleLines == { T_Du, <<" ","D","u"," ">>, T_du, T_Ha, <<" ">> }
AuthorLines == { A_Al, A_Bo, <<>> }
YearLines == { <<"-","1","2">>, <<"1","x">>, <<>> }
GenreLines == { G_SF, <<>> }
ReadLines == { <<"Y","E","S">>, <<"n">>, <<"m","a","y","b","e">> }
RemoveLines == { <<"D","U">>, <<"h","a">>, <<"D">>, <<>> }
ChoiceLines == { <<"1">>, <<"2">>, <<"3">>, <<"0">>, <<"x">> }
ModeLines == { <<"1">>, <<"2">>, <<"3">> }
TermLines == { <<"U">>, <<"a">>, <<"A","L">>, <<"z">>, <<" ">> }
AckLines == { <<>> }

Book(t, a, r) == [title |-> t, author |-> a, year |-> -12, genre |-> G_SF, read |-> r]

\* an object of a hand-edited store that lacks keys
PartialBook == [author |-> A_Al, year |-> -12]

InitialStores ==
    { [kind |-> "absent", doc |-> <<>>],
      [kind |-> "unreadable", doc |-> <<>>],
      [kind |-> "corrupt", doc |-> <<>>],
      [kind |-> "json",
       doc |-> json_dump(<< Book(T_Du, A_Al, TRUE), Book(T_Ha, A_Bo, FALSE),
                            Book(T_Du, A_Al, TRUE) >>)],
      [kind |-> "json", doc |-> json_dump(<< PartialBook, Book(T_Du, A_Bo, FALSE) >>)] }

-----------------------------------------------------------------------------
(* The session *)

NoBook == [k \in {} |-> 0]

Out(h, m, res, st) == [handler |-> h, msg |-> m, results |-> res, stats |-> st]

Init ==
    /\ store \in InitialStores
    /\ library = <<>>
    /\ pc = "start"
    /\ book = NoBook
    /\ found_books = <<>>
    /\ search_by = 0
    /\ out = Out("none", "", <<>>, <<>>)
    /\ line = <<>>

\* main, line 193
Load ==
    /\ pc = "start"
    /\ library' = load_library(store)
    /\ pc' = "menu"
    /\ out' = Out("load_library",
                  IF store.kind \in {"unreadable", "corrupt"}
                  THEN "Error loading library" ELSE "",
                  <<>>, <<>>)
    /\ UNCHANGED <<store, book, found_books, search_by, line>>

\* get_valid_input prints the message and prompts again
Reprompt(h, message) ==
    /\ out' = Out(h, message, <<>>, <<>>)
    /\ UNCHANGED <<store, library, pc, book, found_books, search_by>>

\* an exception no handler catches ends the process
Crash(h, message) ==
    /\ pc' = "crashed"
    /\ out' = Out(h, message, <<>>, <<>>)
    /\ book' = NoBook /\ found_books' = <<>> /\ search_by' = 0
    /\ UNCHANGED <<store, library>>

\* a handler returns to main, which waits for Enter; its locals are gone
Return(h, message, res, st) ==
    /\ pc' = "ack"
    /\ out' = Out(h, message, res, st)
    /\ book' = NoBook /\ found_books' = <<>> /\ search_by' = 0
    /\ UNCHANGED store

\* a handler moves on to its next prompt
Prompt(h, next) ==
    /\ pc' = next
    /\ out' = Out(h, "", <<>>, <<>>)
    /\ UNCHANGED <<store, library>>

-----------------------------------------------------------------------------
(* add_book *)

Put(b, key, v) == [k \in DOMAIN b \cup {key} |-> IF k = key THEN v ELSE b[k]]

\* append that refuses a record already in the list
add_book_append_nodup(lib, b) ==
    IF \E i \in 1..Len(lib) : lib[i] = b THEN lib ELSE Append(lib, b)

\* library.append(book)
add_book_append(lib, b) == Append(lib, b)

add_book ==
    /\ Len(library) < MaxBooks
    /\ Prompt("add_book", "add_title")
    /\ UNCHANGED <<book, found_books, search_by>>

\* the next value of the dict under construction
AddField(l, key, input_type, next) ==
    LET r == get_valid_input(l, input_type, {}) IN
    /\ line' = l
    /\ IF ~r.ok THEN Reprompt("add_book", r.value)
       ELSE /\ Prompt("add_book", next)
            /\ book' = Put(book, key, r.value)
            /\ UNCHANGED <<found_books, search_by>>

AddTitle(l) == pc = "add_title" /\ AddField(l, "title", "str", "add_author")
AddAuthor(l) == pc = "add_author" /\ AddField(l, "author", "str", "add_year")
AddYear(l) == pc = "add_year" /\ AddField(l, "year", "int", "add_genre")
AddGenre(l) == pc = "add_genre" /\ AddField(l, "genre", "str", "add_read")

\* add_book that also writes the store
AddRead_autosave(l) ==
    LET r == get_valid_input(l, "bool", {}) IN
    /\ pc = "add_read"
    /\ line' = l
    /\ IF ~r.ok THEN Reprompt("add_book", r.value)
       ELSE /\ library' = add_book_append(library, Put(book, "read", r.value))
            /\ pc' = "ack"
            /\ out' = Out("add_book", "Book added successfully!", <<>>, <<>>)
            /\ book' = NoBook /\ found_books' = <<>> /\ search_by' = 0
            /\ store' = save_library(store, library', "ok")

AddRead(l) ==
    LET r == get_valid_input(l, "bool", {}) IN
    /\ pc = "add_read"
    /\ line' = l
    /\ IF ~r.ok THEN Reprompt("add_book", r.value)
       ELSE /\ library' = add_book_append(library, Put(book, "read", r.value))
            /\ Return("add_book", "Book added successfully!", <<>>, <<>>)

-----------------------------------------------------------------------------
(* remove_book *)

\* the containment test of search_books used for removal
title_matches_substring(b, title) == Contains(lower(title), lower(b.title))

\* book['title'].lower() == title.lower()
title_matches(b, title) == lower(b.title) = lower(title)

\* list.remove(x): the first element equal to x goes
list_remove(lib, x) ==
    LET i == CHOOSE i \in 1..Len(lib) :
                 lib[i] = x /\ \A j \in 1..(i - 1) : lib[j] # x
    IN SubSeq(lib, 1, i - 1) \o SubSeq(lib, i + 1, Len(lib))

remove_book ==
    IF library = <<>>
    THEN library' = library /\ Return("remove_book", "Your library is empty!", <<>>, <<>>)
    ELSE Prompt("remove_book", "remove_title") /\ UNCHANGED <<book, found_books, search_by>>

RemoveTitle(l) ==
    LET r == get_valid_input(l, "str", {})
        found == SelectSeq(library, LAMBDA b : title_matches(b, r.value))
    IN
    /\ pc = "remove_title"
    /\ line' = l
    /\ IF ~r.ok THEN Reprompt("remove_book", r.value)
       ELSE IF \E i \in 1..Len(library) : ~Has(library[i], "title")
       THEN Crash("remove_book", "KeyError")
       ELSE IF found = <<>>
       THEN library' = library /\ Return("remove_book", "No book found", <<>>, <<>>)
       ELSE IF Len(found) > 1
       THEN IF \E i \in 1..Len(found) : ~Has(found[i], "author") \/ ~Has(found[i], "year")
            THEN Crash("remove_book", "KeyError")
            ELSE /\ Prompt("remove_book", "remove_choice")
                 /\ found_books' = found
                 /\ UNCHANGED <<book, search_by>>
       ELSE /\ library' = list_remove(library, found[1])
            /\ Return("remove_book", "Book removed successfully!", <<found[1]>>, <<>>)

RemoveChoice(l) ==
    LET r == get_valid_input(l, "int", 1..Len(found_books)) IN
    /\ pc = "remove_choice"
    /\ line' = l
    /\ IF ~r.ok THEN Reprompt("remove_book", r.value)
       ELSE /\ library' = list_remove(library, found_books[r.value])
            /\ Return("remove_book", "Book removed successfully!",
                      <<found_books[r.value]>>, <<>>)

-----------------------------------------------------------------------------
(* search_books, display_all_books, display_statistics *)

SearchField == [m \in {1, 2} |-> IF m = 1 THEN "title" ELSE "author"]

\* search_term.lower() in book[field].lower()
term_matches(b, field, term) == Contains(lower(term), lower(b[field]))

\* the one-line summary reads all five keys
CanPrint(b) == \A k \in Fields : Has(b, k)

search_books ==
    IF library = <<>>
    THEN library' = library /\ Return("search_books", "Your library is empty!", <<>>, <<>>)
    ELSE Prompt("search_books", "search_choice") /\ UNCHANGED <<book, found_books, search_by>>

SearchChoice(l) ==
    LET r == get_valid_input(l, "int", {1, 2}) IN
    /\ pc = "search_choice"
    /\ line' = l
    /\ IF ~r.ok THEN Reprompt("search_books", r.value)
       ELSE /\ Prompt("search_books", "search_term")
            /\ search_by' = r.value
            /\ UNCHANGED <<book, found_books>>

SearchTerm(l) ==
    LET r == get_valid_input(l, "str", {})
        field == SearchField[search_by]
        results == SelectSeq(library, LAMBDA b : term_matches(b, field, r.value))
    IN
    /\ pc = "search_term"
    /\ line' = l
    /\ IF ~r.ok THEN Reprompt("search_books", r.value) 
       ELSE IF \E i \in 1..Len(library) : ~Has(library[i], field)
       THEN Crash("search_books", "KeyError")
       ELSE IF results = <<>>
       THEN library' = library /\ Return("search_books", "No matching books found.", <<>>, <<>>)
       ELSE IF \E i \in 1..Len(results) : ~CanPrint(results[i])
       THEN Crash("search_books", "KeyError")
       ELSE library' = library /\ Return("search_books", "Found matching book(s)", results, <<>>)

display_all_books ==
    IF library = <<>>
    THEN library' = library /\ Return("display_all_books", "Your library is empty!", <<>>, <<>>)
    ELSE IF \E i \in 1..Len(library) : ~CanPrint(library[i])
    THEN Crash("display_all_books", "KeyError")
    ELSE library' = library /\ Return("display_all_books", "Your Library", library, <<>>)

RECURSIVE FirstOccurrences(_)
FirstOccurrences(s) ==
    IF s = <<>> THEN <<>>
    ELSE LET r == FirstOccurrences(SubSeq(s, 1, Len(s) - 1)) IN
         IF s[Len(s)] \in Range(r) THEN r ELSE Append(r, s[Len(s)])

\* the dict of counts, in the order its keys were first inserted
CountBy(lib, key) ==
    LET keys == FirstOccurrences([i \in 1..Len(lib) |-> lib[i][key]]) IN
    [n \in 1..Len(keys) |->
        <<keys[n], Cardinality({i \in 1..Len(lib) : lib[i][key] = keys[n]})>>]

\* (read_books / total_books) * 100 under the format .1f, in tenths of a
\* percent; rounded to nearest (no catalog of fewer than 8 books gives a tie)
PercentTenths(read_books, total_books) ==
    (2000 * read_books + total_books) \div (2 * total_books)

display_statistics ==
    LET total_books == Len(library)
        read_books == Cardinality({i \in 1..Len(library) : library[i].read})
    IN
    IF library = <<>>
    THEN library' = library /\ Return("display_statistics", "Your library is empty!", <<>>, <<>>)
    ELSE IF \E i \in 1..Len(library) :
                ~Has(library[i], "read") \/ ~Has(library[i], "genre")
                    \/ ~Has(library[i], "author")
    THEN Crash("display_statistics", "KeyError")
    ELSE /\ library' = library
         /\ Return("display_statistics", "Library Statistics",
                   CountBy(library, "genre") \o CountBy(library, "author"),
                   <<total_books, read_books, PercentTenths(read_books, total_books)>>)

-----------------------------------------------------------------------------
(* main *)

\* the menu read without its range of options
menu_choice_unchecked(l) == get_valid_input(l, "int", {})

\* the read of the menu choice, line 199
menu_choice(l) == get_valid_input(l, "int", 1..6)

\* choice 6: save_library, the farewell, break
exit(outcome) ==
    /\ store' = save_library(store, library, outcome)
    /\ pc' = "done"
    /\ out' = Out("save_library",
                  IF outcome = "ok" THEN "Library saved" ELSE "Error saving library",
                  library, <<>>)
    /\ UNCHANGED <<library, book, found_books, search_by>>

\* one turn of the loop of main: the menu, the validated choice, the dispatch
main(l, outcome) ==
    LET r == menu_choice(l) IN
    /\ pc = "menu"
    /\ line' = l
    /\ IF ~r.ok THEN Reprompt("none", r.value)
       ELSE IF r.value = 1 THEN add_book
       ELSE IF r.value = 2 THEN remove_book
       ELSE IF r.value = 3 THEN search_books
       ELSE IF r.value = 4 THEN display_all_books
       ELSE IF r.value = 5 THEN display_statistics
       ELSE IF r.value = 6 THEN exit(outcome)
       ELSE library' = library /\ Return("none", "", <<>>, <<>>)

\* input("Press Enter to continue...")
Ack(l) ==
    /\ pc = "ack"
    /\ line' = l
    /\ pc' = "menu"
    /\ out' = Out("none", "", <<>>, <<>>)
    /\ UNCHANGED <<store, library, book, found_books, search_by>>

\* the next run of the program starts: load_library on the store left behind
Reload ==
    /\ pc = "done"
    /\ pc' = "reloaded"
    /\ library' = load_library(store)
    /\ UNCHANGED <<store, book, found_books, search_by, out, line>>

Next ==
    \/ Load
    \/ \E l \in MenuLines, outcome \in SaveOutcomes : main(l, outcome)
    \/ \E l \in TitleLines : AddTitle(l)
    \/ \E l \in AuthorLines : AddAuthor(l)
    \/ \E l \in YearLines : AddYear(l)
    \/ \E l \in GenreLines : AddGenre(l)
    \/ \E l \in ReadLines : AddRead(l)
    \/ \E l \in RemoveLines : RemoveTitle(l)
    \/ \E l \in ChoiceLines : RemoveChoice(l)
    \/ \E l \in ModeLines : SearchChoice(l)
    \/ \E l \in TermLines : SearchTerm(l)
    \/ \E l \in AckLines : Ack(l)
    \/ Reload

Spec == Init /\ [][Next]_vars

-----------------------------------------------------------------------------
(* Properties *)

DeleteAt(s, i) == SubSeq(s, 1, i - 1) \o SubSeq(s, i + 1, Len(s))

\* the catalog positions whose title equals t, letter case aside
TitleEquals(lib, i, t) == Has(lib[i], "title") /\ lower(lib[i].title) = lower(t)
Matches(lib, t) == {i \in 1..Len(lib) : TitleEquals(lib, i, t)}

\* the catalog position of the k-th listed match
KthMatch(lib, t, k) ==
    CHOOSE p \in Matches(lib, t) : Cardinality({q \in Matches(lib, t) : q <= p}) = k

AddPcs == {"add_title", "add_author", "add_year", "add_genre", "add_read"}
Ended == {"done", "crashed", "reloaded"}

\* the step condition of C1_RemoveKthOfDuplicates
C1_RemoveKthOfDuplicates_Step ==
    (pc = "remove_choice" /\ pc' = "ack")
        => library' = DeleteAt(library,
                               KthMatch(library, found_books[1].title, int(strip(line'))))

\* C1: removing among duplicates: with N > 1 records titled as entered and the
\* validated choice k, the catalog afterwards is the catalog before with the
\* record at the position of the k-th listed match deleted, all other records
\* in place.
C1_RemoveKthOfDuplicates == [][C1_RemoveKthOfDuplicates_Step]_vars

\* the step condition of C2_AddAppendsOne
C2_AddAppendsOne_Step ==
    LET answered == pc = "add_read" /\ lower(strip(line')) \in YesNo IN
    pc \in AddPcs =>
        IF answered
        THEN /\ pc' = "ack"
             /\ Len(library') = Len(library) + 1
             /\ SubSeq(library', 1, Len(library)) = library
             /\ library'[Len(library')] = Put(book, "read", lower(strip(line')) \in Yes)
        ELSE /\ library' = library
             /\ pc' \in AddPcs

\* C2: every completed add_book makes the catalog one longer, puts the record
\* entered last and leaves the earlier records as they were, duplicate or not;
\* until the last prompt is answered the catalog is untouched.
C2_AddAppendsOne == [][C2_AddAppendsOne_Step]_vars

\* C2 witness: an add has completed and its record equals the one before it.
C2_Witness ==
    /\ pc = "ack" /\ out.handler = "add_book"
    /\ Len(library) >= 2
    /\ library[Len(library)] = library[Len(library) - 1]

\* the step condition of C3_RemoveNoMatchNoChange
C3_RemoveNoMatchNoChange_Step ==
    LET empty == pc = "menu" /\ strip(line') = <<"2">> /\ library = <<>>
        nomatch == pc = "remove_title" /\ Matches(library, strip(line')) = {}
    IN (empty \/ nomatch) => (library' = library /\ pc' # "remove_choice")

\* C3: remove_book on an empty catalog, or with a title that equals no
\* record's title letter case aside, leaves the catalog as it was and asks for
\* no choice.
C3_RemoveNoMatchNoChange == [][C3_RemoveNoMatchNoChange_Step]_vars

\* C3 witness: a removal found no book although the title entered is part of
\* the title of a record.
C3_Witness ==
    /\ pc = "ack" /\ out.handler = "remove_book" /\ out.msg = "No book found"
    /\ \E i \in 1..Len(library) :
         /\ Has(library[i], "title")
         /\ Contains(lower(strip(line)), lower(library[i].title))

\* the step condition of C4_RemoveSingleMatch
C4_RemoveSingleMatch_Step ==
    (pc = "remove_title" /\ Cardinality(Matches(library, strip(line'))) = 1)
        => (pc' = "ack"
            /\ library' = DeleteAt(library, KthMatch(library, strip(line'), 1)))

\* C4: when the title entered equals the title of exactly one record, letter
\* case aside, remove_book deletes that record, keeps the others in order and
\* asks for no choice.
C4_RemoveSingleMatch == [][C4_RemoveSingleMatch_Step]_vars

\* C5: a catalog saved with success and loaded again from the same store is
\* the catalog that was saved: the same records, in the same order, all
\* fields equal.
C5_SaveLoadRoundTrip ==
    (pc = "reloaded" /\ out.msg = "Library saved") => library = out.results

\* C5 witness: a catalog with a read and an unread book was saved and loaded.
C5_Witness ==
    /\ pc = "reloaded" /\ out.msg = "Library saved"
    /\ \E i, j \in 1..Len(library) :
         /\ Has(library[i], "read") /\ library[i].read
         /\ Has(library[j], "read") /\ ~library[j].read

\* the step condition of C6_StoreWrittenOnlyOnExit
C6_StoreWrittenOnlyOnExit_Step ==
    LET exiting == pc = "menu" /\ strip(line') = <<"6">> /\ pc' = "done" IN
    /\ store' # store => exiting
    /\ (exiting /\ out'.msg = "Library saved")
          => (store'.kind = "json" /\ json_load(store'.doc) = library)
    /\ pc' = "crashed" => store' = store

\* C6: only choice 6 writes the store: no other step changes it, a session
\* that ends otherwise leaves it as it was, and after a save that succeeded
\* the store holds the catalog of that moment.
C6_StoreWrittenOnlyOnExit == [][C6_StoreWrittenOnlyOnExit_Step]_vars

\* C6 witness: the session ended by choice 6 and the store holds a catalog it
\* did not hold when the session started.
C6_Witness ==
    /\ pc = "done" /\ out.msg = "Library saved"
    /\ store \notin InitialStores
    /\ Len(library) > 0

\* the handler main calls for each choice
HandlerOf ==
    << "add_book", "remove_book", "search_books", "display_all_books",
       "display_statistics", "save_library" >>

\* a menu line that is empty, not a number, or a number outside 1..6
MenuRejects(l) ==
    \/ strip(l) = <<>>
    \/ ~IsIntLiteral(strip(l))
    \/ int(strip(l)) \notin 1..6

\* the step condition of C7_MenuRejectsInvalid
C7_MenuRejectsInvalid_Step ==
    pc = "menu" =>
        IF MenuRejects(line')
        THEN /\ pc' = "menu"
             /\ out'.handler = "none"
             /\ library' = library
             /\ store' = store
        ELSE /\ pc' # "menu"
             /\ out'.handler = HandlerOf[int(strip(line'))]

\* C7: at the menu a line that is empty, not a number or out of 1..6 calls no
\* handler, changes neither catalog nor store and leaves the session at the
\* menu; any other line calls the handler of its number.
C7_MenuRejectsInvalid == [][C7_MenuRejectsInvalid_Step]_vars

\* C7 witness: an out-of-range number was rejected at the menu of a catalog
\* with books.
C7_Witness ==
    /\ pc = "menu" /\ line = <<"9">> /\ out.handler = "none"
    /\ out.msg = "Please enter one of"
    /\ Len(library) > 0

\* the step condition of C8_EndsOnlyByExit
C8_EndsOnlyByExit_Step ==
    (pc' \in Ended /\ pc \notin Ended)
        => (pc = "menu" /\ strip(line') = <<"6">> /\ pc' = "done")

\* C8: the session ends only through choice 6: every handler of choices 1-5
\* comes back to the menu, and only the exit step ends the session.
C8_EndsOnlyByExit == [][C8_EndsOnlyByExit_Step]_vars

WellFormed(b) ==
    /\ DOMAIN b = Fields
    /\ Len(b.title) > 0 /\ Len(b.author) > 0 /\ Len(b.genre) > 0
    /\ b.year \in Int
    /\ b.read \in BOOLEAN

\* C9: once loaded, the catalog holds only records with all five fields:
\* non-empty title, author and genre, an integer year, a boolean read.
C9_AllRecordsComplete ==
    pc # "start" => \A i \in 1..Len(library) : WellFormed(library[i])

\* the records whose chosen field contains t, letter case aside, in catalog order
Hits(lib, m, t) ==
    SelectSeq(lib, LAMBDA b : Has(b, SearchField[m])
                              /\ Contains(lower(t), lower(b[SearchField[m]])))

\* the step condition of C10_SearchReportsHits
C10_SearchReportsHits_Step ==
    (pc = "search_term" /\ strip(line') # <<>>)
        => (pc' = "ack"
            /\ library' = library
            /\ out'.results = Hits(library, search_by, strip(line'))
            /\ ((out'.msg = "No matching books found.")
                  <=> (Hits(library, search_by, strip(line')) = <<>>)))

\* C10: search_books with a non-empty term reports the records whose chosen
\* field contains the term, letter case aside, in catalog order, says that
\* nothing matches exactly when there is none, and leaves the catalog alone.
C10_SearchReportsHits == [][C10_SearchReportsHits_Step]_vars

====
